---------------------------- MODULE Spec2Model ----------------------------
(***************************************************************************)
(* A model of the CANSLIM analyzer (src/canslim_analyzer.py) and of the    *)
(* market screener (src/market_screener.py).                               *)
(*                                                                         *)
(* Numbers.  Python floats are modelled as tagged values: Num(n) carries   *)
(* an integer in a fixed-point unit stated where it is used, NaN is        *)
(* numpy's nan and PosInf is numpy's inf.  Every comparison with NaN is    *)
(* false, as in Python.                                                    *)
(*                                                                         *)
(* Dictionaries are functions over string keys; d.get(k, default) is       *)
(* Get(d, k, default).  Python's None is the value None, and an exception  *)
(* that leaves a function is the value Raised.                             *)
(***************************************************************************)
EXTENDS Integers, Sequences, FiniteSets, TLC

VARIABLES
    \* ---- scoring of one symbol (CANSLIMAnalyzer / MarketScreener.analyze_stock)
    data_in,          \* what get_stock_data and the signal functions yield for the symbol
    leadership_out,   \* the value of analyze_leadership_criteria(symbol)
    stock_out,        \* the value of MarketScreener.analyze_stock(symbol)
    screened_out,     \* the value of analyze_single_stock(symbol) in a batch
    \* ---- recommendation policy
    leadership_in,    \* leadership_score handed to _generate_recommendation
    caution_in,       \* caution_score handed to _generate_recommendation
    recommendation,   \* the value of _generate_recommendation
    \* ---- screening run (MarketScreener.run_market_specific_screening)
    markets_to_screen,\* the argument of run_market_specific_screening
    listing,          \* market name -> the symbol list its get_*_stocks returns
    history,          \* symbol -> what the data provider yields for it
    max_workers,      \* the pool size of analyze_stock_batch
    pc,               \* position of the main thread
    market_idx,       \* index of the market the for loop is at
    futures,          \* per submitted task: "queued", "running" or "done"
    collected,        \* tasks whose future as_completed has yielded
    results,          \* analyze_stock_batch's local list
    all_results,      \* run_market_specific_screening's list
    run_no,           \* which run of the screening this is (1 or 2)
    first_run,        \* the list the first run returned
    \* ---- one analyzer session (a CANSLIMAnalyzer object and the calls made on it)
    benchmark_data,   \* self.benchmark_data
    benchmark_loads,  \* how often the benchmark series has been fetched
    op,               \* the operation called last
    symbol_data,      \* what get_stock_data yields for the symbol of the last call
    basket,           \* the symbol list of the last call, each with what get_stock_data yields
    returned,         \* the value the last call returned
    \* ---- change detection (MarketScreener.detect_changes)
    new_results,      \* the argument new_results
    previous_file,    \* the argument previous_file and what the file system holds for it
    changes,          \* the value of detect_changes
    \* ---- the signals of one price series
    price_series,     \* the history of a symbol and its overlap with the benchmark
    evaluation,       \* what the signal computations and the analysis give for it
    \* ---- one indicator (_analyze_volatility, _analyze_macd)
    indicator_input,  \* the daily returns or the monthly bars handed to the indicator
    indicator,        \* the value the indicator returned
    \* ---- the caution signals of a sector (analyze_caution_criteria)
    sector_data,      \* valid_data: the frames collected so far, in symbol order
    sector_signals    \* the caution_signals computed from them

scoreVars  == <<data_in, leadership_out, stock_out, screened_out>>
recVars    == <<leadership_in, caution_in, recommendation>>
screenVars == <<markets_to_screen, listing, history, max_workers, pc, market_idx,
                futures, collected, results, all_results, run_no, first_run>>
sessionVars == <<benchmark_data, benchmark_loads, op, symbol_data, basket, returned>>
diffVars   == <<new_results, previous_file, changes>>
signalVars == <<price_series, evaluation>>
indicatorVars == <<indicator_input, indicator>>
sectorVars == <<sector_data, sector_signals>>
vars       == <<scoreVars, recVars, screenVars, sessionVars, diffVars, signalVars, indicatorVars, sectorVars>>

---------------------------------------------------------------------------
(* Python values *)

None   == [type |-> "None"]
Raised == [type |-> "exception"]
\* a variable whose operation has not run yet
NotCalled == [type |-> "not_called"]
EmptyDict == [k \in {} |-> TRUE]

Get(d, k, default) == IF k \in DOMAIN d THEN d[k] ELSE default

Num(n) == [k |-> "num", v |-> n]
NaN    == [k |-> "nan"]
PosInf == [k |-> "inf"]

\* a > b on floats
FGt(a, b) ==
    /\ a.k # "nan"
    /\ b.k # "nan"
    /\ IF a.k = "inf" THEN b.k # "inf"
       ELSE b.k = "num" /\ a.v > b.v

\* a >= b on floats
FGe(a, b) ==
    /\ a.k # "nan"
    /\ b.k # "nan"
    /\ IF a.k = "inf" THEN TRUE
       ELSE b.k = "num" /\ a.v >= b.v

\* the integer nearest to num/den, den > 0 (no input of the model is a tie)
round_div(num, den) == (2 * num + den) \div (2 * den)

\* round(x, 2) of a value held in thousandths, giving hundredths; nan stays nan
round2(x) == IF x.k = "num" THEN Num(round_div(x.v, 10)) ELSE x


---------------------------------------------------------------------------
(* The signals of one symbol.                                              *)
(*                                                                         *)
(* data_in is what get_stock_data and the signal functions yield for one   *)
(* symbol: no data (None or an empty frame), data on which the analysis    *)
(* raises, or a frame summarised by the values the criteria are built      *)
(* from.  Prices are in currency units, relative strength in thousandths   *)
(* of a percentage point (before round(.., 2)), strength_ratio in          *)
(* hundredths (after round(.., 2)).                                        *)

Prices       == {94, 95, 100}
Highs        == {Num(100), NaN}          \* rolling(252).max(): nan on a short frame
MovingAvgs   == {Num(95), NaN}           \* rolling(100).mean(): nan on a short frame
Slopes       == {Num(-1), Num(0), Num(1)}
RelStrengths == {NaN, Num(-4), Num(4), Num(6), Num(20004), Num(20006)}
MacdResults  == {[error |-> "insufficient_data"],
                 [downward_reversal_signal |-> TRUE,  sell_preparation_needed |-> TRUE],
                 [downward_reversal_signal |-> FALSE, sell_preparation_needed |-> FALSE]}
VolResults   == {[error |-> "calculation_failed"]}
                \cup {[strength_ratio |-> r] : r \in {Num(0), Num(119), Num(120), PosInf}}

SignalSets ==
    [current_price : Prices, high_52w : Highs, has_benchmark : BOOLEAN,
     rs_6m : RelStrengths, ma_20 : MovingAvgs, ma20_slope : Slopes,
     macd : MacdResults, volatility : VolResults]

NoData  == [data |-> "none"]
BadData == [data |-> "corrupt"]
Frame(s) == [data |-> "ok", sig |-> s]

StockData == {NoData, BadData} \cup {Frame(s) : s \in SignalSets}

---------------------------------------------------------------------------
(* CANSLIMAnalyzer: the 6-point leadership score *)

max_score == 6

_get_grade_B_plus_at_60(score, top) ==
    IF score * 100 >= 90 * top THEN "A+"
    ELSE IF score * 100 >= 80 * top THEN "A"
    ELSE IF score * 100 >= 60 * top THEN "B+"
    ELSE IF score * 100 >= 50 * top THEN "C"
    ELSE "D"

_get_grade_B_plus_at_65(score, top) ==
    IF score * 100 >= 90 * top THEN "A+"
    ELSE IF score * 100 >= 80 * top THEN "A"
    ELSE IF score * 100 >= 65 * top THEN "B+"
    ELSE IF score * 100 >= 60 * top THEN "B"
    ELSE IF score * 100 >= 50 * top THEN "C"
    ELSE "D"

\* percentage = (score / max_score) * 100, compared without dividing
_get_grade(score, top) ==
    IF score * 100 >= 90 * top THEN "A+"
    ELSE IF score * 100 >= 80 * top THEN "A"
    ELSE IF score * 100 >= 70 * top THEN "B+"
    ELSE IF score * 100 >= 60 * top THEN "B"
    ELSE IF score * 100 >= 50 * top THEN "C"
    ELSE "D"

Point(b) == IF b THEN 1 ELSE 0

_calculate_leadership_score_macd_default_false(criteria) ==
    LET score ==
            Point(Get(Get(criteria, "52w_high", EmptyDict), "is_near_high", FALSE))
          + Point(Get(Get(criteria, "market_performance", EmptyDict), "outperforms_market", FALSE))
          + Point(Get(Get(criteria, "moving_average", EmptyDict), "above_20w_ma", FALSE))
          + Point(Get(Get(criteria, "moving_average", EmptyDict), "ma20_trending_up", FALSE))
          + Point(~ Get(Get(criteria, "macd", EmptyDict), "sell_preparation_needed", FALSE))
          + Point(FGe(Get(Get(criteria, "volatility", EmptyDict), "strength_ratio", Num(0)), Num(120)))
    IN  [score |-> score, max_score |-> max_score,
         percentage |-> round_div(score * 1000, max_score),
         grade |-> _get_grade(score, max_score)]

\* The except branch is taken when a criteria entry is not a dict (None.get
\* raises); percentage is in tenths of a percent.
_calculate_leadership_score(criteria) ==
    IF \E k \in DOMAIN criteria : criteria[k] = None
    THEN [score |-> 0, max_score |-> max_score, percentage |-> 0, grade |-> "F"]
    ELSE
    LET score ==
            Point(Get(Get(criteria, "52w_high", EmptyDict), "is_near_high", FALSE))
          + Point(Get(Get(criteria, "market_performance", EmptyDict), "outperforms_market", FALSE))
          + Point(Get(Get(criteria, "moving_average", EmptyDict), "above_20w_ma", FALSE))
          + Point(Get(Get(criteria, "moving_average", EmptyDict), "ma20_trending_up", FALSE))
          + Point(~ Get(Get(criteria, "macd", EmptyDict), "sell_preparation_needed", TRUE))
          + Point(FGe(Get(Get(criteria, "volatility", EmptyDict), "strength_ratio", Num(0)), Num(120)))
    IN  [score |-> score, max_score |-> max_score,
         percentage |-> round_div(score * 1000, max_score),
         grade |-> _get_grade(score, max_score)]

\* The criteria dict of analyze_leadership_criteria (lines 75-115); fields
\* that no scorer reads (rounded prices, beta, the 3-month strength) are
\* left out.  market_performance is present only with a benchmark.
Criteria(s) ==
    ("52w_high" :> [is_near_high |->
                        /\ s.high_52w.k = "num"
                        /\ 100 * s.current_price >= 95 * s.high_52w.v])
    @@ (IF s.has_benchmark
        THEN "market_performance" :>
                [relative_strength_6m |-> round2(s.rs_6m),
                 outperforms_market   |-> FGt(s.rs_6m, Num(0))]
        ELSE EmptyDict)
    @@ ("moving_average" :>
                [above_20w_ma     |-> FGt(Num(s.current_price), s.ma_20),
                 ma20_trending_up |-> FGt(s.ma20_slope, Num(0))])
    @@ ("macd" :> s.macd)
    @@ ("volatility" :> s.volatility)

analyze_leadership_criteria(symbol, d) ==
    IF d.data = "none" THEN [error |-> "no_data"]
    ELSE IF d.data = "corrupt" THEN Raised
    ELSE [symbol |-> symbol,
          criteria |-> Criteria(d.sig),
          leadership_score |-> _calculate_leadership_score(Criteria(d.sig))]

---------------------------------------------------------------------------
(* MarketScreener: the 7-point CANSLIM score.  Scores are held in half     *)
(* points (1.0 is 2, 0.5 is 1, 0.0 is 0); overall_score in tenths of a     *)
(* percent, as round(.., 1) leaves it.                                      *)

Pass(b) == IF b THEN 2 ELSE 0

\* Python truthiness of d.get(k) for a string-valued key: a non-empty string
\* is true, the None of a missing key is false
TruthyGet(d, k) == k \in DOMAIN d /\ d[k] # ""

_calculate_canslim_scores_M_ignores_error(criteria) ==
    LET mp  == Get(criteria, "market_performance", EmptyDict)
        ma  == Get(criteria, "moving_average", EmptyDict)
        rs  == Get(mp, "relative_strength_6m", Num(-10000))
    IN  [C |-> Pass(Get(Get(criteria, "52w_high", EmptyDict), "is_near_high", FALSE)),
         A |-> Pass("market_performance" \in DOMAIN criteria /\ FGt(rs, Num(0))),
         N |-> 1,
         S |-> Pass(Get(ma, "above_20w_ma", FALSE) /\ Get(ma, "ma20_trending_up", FALSE)),
         L |-> Pass("market_performance" \in DOMAIN criteria /\ FGt(rs, Num(2000))),
         I |-> Pass(FGe(Get(Get(criteria, "volatility", EmptyDict), "strength_ratio", Num(0)), Num(120))),
         M |-> Pass(~ Get(Get(criteria, "macd", EmptyDict), "sell_preparation_needed", FALSE))]

_calculate_canslim_scores_N_zero(criteria) ==
    [C |-> IF "52w_high" \in DOMAIN criteria
           THEN Pass(Get(criteria["52w_high"], "is_near_high", FALSE))
           ELSE 0,
     A |-> IF "market_performance" \in DOMAIN criteria
           THEN Pass(FGt(Get(criteria["market_performance"], "relative_strength_6m", Num(-10000)),
                         Num(0)))
           ELSE 0,
     N |-> 0,
     S |-> IF "moving_average" \in DOMAIN criteria
           THEN Pass(/\ Get(criteria["moving_average"], "above_20w_ma", FALSE)
                     /\ Get(criteria["moving_average"], "ma20_trending_up", FALSE))
           ELSE 0,
     L |-> IF "market_performance" \in DOMAIN criteria
           THEN Pass(FGt(Get(criteria["market_performance"], "relative_strength_6m", Num(-10000)),
                         Num(2000)))
           ELSE 0,
     I |-> IF "volatility" \in DOMAIN criteria
           THEN IF "strength_ratio" \in DOMAIN criteria["volatility"]
                THEN Pass(FGe(criteria["volatility"]["strength_ratio"], Num(120)))
                ELSE 0
           ELSE 0,
     M |-> IF "macd" \in DOMAIN criteria
           THEN Pass(/\ ~ TruthyGet(criteria["macd"], "error")
                     /\ ~ Get(criteria["macd"], "sell_preparation_needed", TRUE))
           ELSE 0]

\* lines 64-133
_calculate_canslim_scores(criteria) ==
    [C |-> IF "52w_high" \in DOMAIN criteria
           THEN Pass(Get(criteria["52w_high"], "is_near_high", FALSE))
           ELSE 0,
     A |-> IF "market_performance" \in DOMAIN criteria
           THEN Pass(FGt(Get(criteria["market_performance"], "relative_strength_6m", Num(-10000)),
                         Num(0)))
           ELSE 0,
     N |-> 1,
     S |-> IF "moving_average" \in DOMAIN criteria
           THEN Pass(/\ Get(criteria["moving_average"], "above_20w_ma", FALSE)
                     /\ Get(criteria["moving_average"], "ma20_trending_up", FALSE))
           ELSE 0,
     L |-> IF "market_performance" \in DOMAIN criteria
           THEN Pass(FGt(Get(criteria["market_performance"], "relative_strength_6m", Num(-10000)),
                         Num(2000)))
           ELSE 0,
     I |-> IF "volatility" \in DOMAIN criteria
           THEN IF "strength_ratio" \in DOMAIN criteria["volatility"]
                THEN Pass(FGe(criteria["volatility"]["strength_ratio"], Num(120)))
                ELSE 0
           ELSE 0,
     M |-> IF "macd" \in DOMAIN criteria
           THEN Pass(/\ ~ TruthyGet(criteria["macd"], "error")
                     /\ ~ Get(criteria["macd"], "sell_preparation_needed", TRUE))
           ELSE 0]

\* sum(canslim_scores.values()), in half points
SumScores(sc) == sc.C + sc.A + sc.N + sc.S + sc.L + sc.I + sc.M

\* analyze_stock: None when the leadership analysis reports an error or
\* raises; else the entry.  (total / 7.0) * 100 with total in half points is
\* 100 * h / 14; in tenths, rounded: round_div(1000 * h, 14).
analyze_stock(symbol, d) ==
    LET leadership_result == analyze_leadership_criteria(symbol, d)
    IN  IF leadership_result = Raised THEN None
        ELSE IF "error" \in DOMAIN leadership_result THEN None
        ELSE LET criteria == Get(leadership_result, "criteria", EmptyDict)
                 canslim_scores == _calculate_canslim_scores(criteria)
                 total_canslim_score == SumScores(canslim_scores)
             IN  [symbol |-> symbol,
                  overall_score |-> round_div(1000 * total_canslim_score, 14),
                  canslim_total |-> total_canslim_score,
                  canslim_scores |-> canslim_scores,
                  leadership_data |-> leadership_result]

\* the floor of analyze_single_stock, 30 percent, in tenths
ScoreFloor == 300

analyze_single_stock_no_floor(symbol, market_name, d) ==
    LET result == analyze_stock(symbol, d)
    IN  IF result # None
        THEN result @@ ("market" :> market_name)
        ELSE None

\* the worker function of analyze_stock_batch
analyze_single_stock(symbol, market_name, d) ==
    LET result == analyze_stock(symbol, d)
    IN  IF result # None /\ Get(result, "overall_score", 0) > ScoreFloor
        THEN result @@ ("market" :> market_name)
        ELSE None

---------------------------------------------------------------------------
(* Scoring one symbol: the input is drawn, then the operations are applied *)
(* to it.                                                                  *)

ScoredSymbol == "AAPL"

ScoreIdle ==
    /\ data_in = NotCalled /\ leadership_out = NotCalled /\ stock_out = NotCalled
    /\ screened_out = NotCalled
RecIdle   == leadership_in = NotCalled /\ caution_in = NotCalled /\ recommendation = NotCalled
ScreenIdle ==
    /\ markets_to_screen = <<>> /\ listing = EmptyDict /\ history = EmptyDict
    /\ max_workers = 0 /\ pc = "idle" /\ market_idx = 0
    /\ futures = <<>> /\ collected = {} /\ results = <<>> /\ all_results = <<>>
    /\ run_no = 0 /\ first_run = <<>>
SessionIdle ==
    /\ benchmark_data = NotCalled /\ benchmark_loads = 0 /\ op = "none"
    /\ symbol_data = NotCalled /\ basket = NotCalled /\ returned = NotCalled
DiffIdle   == new_results = <<>> /\ previous_file = NotCalled /\ changes = NotCalled
SignalIdle == price_series = NotCalled /\ evaluation = NotCalled
IndicatorIdle == indicator_input = NotCalled /\ indicator = NotCalled
SectorIdle == sector_data = <<>> /\ sector_signals = NotCalled

InitScore ==
    /\ data_in \in StockData
    /\ leadership_out = NotCalled
    /\ stock_out = NotCalled
    /\ screened_out = NotCalled
    /\ RecIdle
    /\ ScreenIdle
    /\ SessionIdle
    /\ DiffIdle
    /\ SignalIdle
    /\ IndicatorIdle
    /\ SectorIdle

AnalyzeLeadership ==
    /\ data_in # NotCalled
    /\ leadership_out = NotCalled
    /\ leadership_out' = analyze_leadership_criteria(ScoredSymbol, data_in)
    /\ UNCHANGED <<data_in, stock_out, screened_out, recVars, screenVars, sessionVars, diffVars, signalVars, indicatorVars, sectorVars>>

AnalyzeStock ==
    /\ data_in # NotCalled
    /\ stock_out = NotCalled
    /\ stock_out' = analyze_stock(ScoredSymbol, data_in)
    /\ UNCHANGED <<data_in, leadership_out, screened_out, recVars, screenVars, sessionVars, diffVars, signalVars, indicatorVars, sectorVars>>

\* the worker function on the symbol, in a batch of the market SP500
AnalyzeSingleStock ==
    /\ data_in # NotCalled
    /\ screened_out = NotCalled
    /\ screened_out' = analyze_single_stock(ScoredSymbol, "SP500", data_in)
    /\ UNCHANGED <<data_in, leadership_out, stock_out, recVars, screenVars, sessionVars, diffVars, signalVars, indicatorVars, sectorVars>>

NextScore == AnalyzeLeadership \/ AnalyzeStock \/ AnalyzeSingleStock

SpecScore == InitScore /\ [][NextScore]_vars

---------------------------------------------------------------------------
(* CANSLIMAnalyzer: the recommendation policy.  The actions are the        *)
(* source's Korean labels, named here in English: "very_cautious" (avoid / *)
(* very cautious), "cautious_buy", "strong_buy", "conditional_buy",        *)
(* "hold_off".  The reason string is left out.                             *)

Max(a, b) == IF a >= b THEN a ELSE b
Min(a, b) == IF a <= b THEN a ELSE b

_calculate_confidence_no_floor(leadership_score, caution_score) ==
    Min(100, leadership_score * 15 - caution_score * 10)

_calculate_confidence(leadership_score, caution_score) ==
    LET base_confidence == leadership_score * 15
        caution_penalty == caution_score * 10
    IN  Max(0, Min(100, base_confidence - caution_penalty))

\* the cascade of lines 597-612
RecommendedAction_leadership_first(leadership_score, caution_score) ==
    IF leadership_score >= 5
    THEN IF caution_score >= 3 THEN "cautious_buy" ELSE "strong_buy"
    ELSE IF caution_score >= 5 THEN "very_cautious"
    ELSE IF leadership_score >= 3 THEN "conditional_buy"
    ELSE "hold_off"

RecommendedAction(leadership_score, caution_score) ==
    IF caution_score >= 5 THEN "very_cautious"
    ELSE IF leadership_score >= 5
         THEN IF caution_score >= 3 THEN "cautious_buy" ELSE "strong_buy"
    ELSE IF leadership_score >= 3 THEN "conditional_buy"
    ELSE "hold_off"

\* leadership is a dict; caution is a dict or None ("if caution" is false for
\* None and for an empty dict)
_generate_recommendation(leadership, caution) ==
    LET leadership_score == Get(Get(leadership, "leadership_score", EmptyDict), "score", 0)
        caution_score == IF caution # None /\ DOMAIN caution # {}
                         THEN Get(caution, "caution_score", 0)
                         ELSE 0
    IN  [action |-> RecommendedAction(leadership_score, caution_score),
         leadership_score |-> leadership_score,
         caution_score |-> caution_score,
         confidence |-> _calculate_confidence(leadership_score, caution_score)]

\* the largest caution score the policy is asked about
MaxCaution == 7

LeadershipInputs ==
    {[error |-> "no_data"]}
    \cup {[leadership_score |-> [score |-> l]] : l \in 0..max_score}
CautionInputs ==
    {None, [error |-> "no_valid_data"]}
    \cup {[caution_score |-> c] : c \in 0..MaxCaution}

InitRec ==
    /\ leadership_in \in LeadershipInputs
    /\ caution_in \in CautionInputs
    /\ recommendation = NotCalled
    /\ ScoreIdle
    /\ ScreenIdle
    /\ SessionIdle
    /\ DiffIdle
    /\ SignalIdle
    /\ IndicatorIdle
    /\ SectorIdle

GenerateRecommendation ==
    /\ leadership_in # NotCalled
    /\ recommendation = NotCalled
    /\ recommendation' = _generate_recommendation(leadership_in, caution_in)
    /\ UNCHANGED <<leadership_in, caution_in, scoreVars, screenVars, sessionVars, diffVars, signalVars, indicatorVars, sectorVars>>

NextRec == GenerateRecommendation

SpecRec == InitRec /\ [][NextRec]_vars

---------------------------------------------------------------------------
(* MarketScreener: the screening run.                                      *)
(*                                                                         *)
(* The symbol lists are the heads of the source's static lists, cut to     *)
(* MaxSymbols names (the two Korean lists, the shorter ones in the source, *)
(* to MaxKoreanSymbols).  get_nasdaq_stocks returns list(set(..)), whose   *)
(* order is whatever the set's iteration gives: any permutation.  The      *)
(* other three functions first try a live retrieval; what they return      *)
(* depends on its outcome.  A returned list is ListOf(seq), so that it can *)
(* be told from the None a function returns by falling off its end.        *)

MaxSymbols == 2
MaxKoreanSymbols == 1
MaxWorkers == 2
\* max_workers of the call in run_market_specific_screening
ScreeningWorkers == 15

market_functions == {"KOSPI", "KOSDAQ", "NASDAQ", "SP500"}

Take(seq, n) == SubSeq(seq, 1, Min(n, Len(seq)))

StaticList(market) ==
    CASE market = "KOSPI"  -> Take(<<"005930.KS", "000660.KS", "035420.KS">>, MaxKoreanSymbols)
      [] market = "KOSDAQ" -> Take(<<"122630.KQ", "091990.KQ", "067310.KQ">>, MaxKoreanSymbols)
      [] market = "SP500"  -> Take(<<"AAPL", "MSFT", "GOOGL">>, MaxSymbols)
      [] market = "NASDAQ" -> Take(<<"AAPL", "MSFT", "AMZN">>, MaxSymbols)

Range(seq) == {seq[i] : i \in DOMAIN seq}

Orderings(seq) ==
    {p \in [DOMAIN seq -> Range(seq)] : Range(p) = Range(seq)}

ListOf(seq) == [type |-> "list", items |-> seq]

\* the names a live retrieval delivers (the exchange's or the index's own
\* table, in its order)
LiveList(market) ==
    CASE market = "KOSPI"  -> Take(<<"000020.KS", "000040.KS", "000050.KS">>, MaxKoreanSymbols)
      [] market = "KOSDAQ" -> Take(<<"000250.KQ", "000440.KQ", "001000.KQ">>, MaxKoreanSymbols)
      [] market = "SP500"  -> Take(<<"MMM", "AAPL", "MSFT">>, MaxSymbols)

\* how the live retrieval of a symbol list may end: the table arrives, the
\* request or the parsing raises, or the server answers with a status
\* other than 200
RetrievalOutcomes == {"success", "raised", "bad_status"}

\* lines 135-168: the list is returned inside "if response.status_code ==
\* 200"; with another status the try block ends without a return, the
\* except clause is not entered and the function returns None
get_kospi_stocks(outcome) ==
    CASE outcome = "success"    -> ListOf(LiveList("KOSPI"))
      [] outcome = "raised"     -> ListOf(StaticList("KOSPI"))
      [] outcome = "bad_status" -> None

\* lines 170-199, of the same shape
get_kosdaq_stocks(outcome) ==
    CASE outcome = "success"    -> ListOf(LiveList("KOSDAQ"))
      [] outcome = "raised"     -> ListOf(StaticList("KOSDAQ"))
      [] outcome = "bad_status" -> None

\* lines 201-220: pd.read_html fetches and parses in one call, which
\* raises on a status other than 200
get_sp500_stocks(outcome) ==
    CASE outcome = "success"    -> ListOf(LiveList("SP500"))
      [] outcome = "raised"     -> ListOf(StaticList("SP500"))
      [] outcome = "bad_status" -> ListOf(StaticList("SP500"))

\* lines 222-270: no retrieval; the two static lists joined, made a set and
\* made a list again
get_nasdaq_stocks == {ListOf(p) : p \in Orderings(StaticList("NASDAQ"))}

\* what the get_*_stocks function of a market may return
SymbolLists(market) ==
    CASE market = "KOSPI"  -> {get_kospi_stocks(o) : o \in RetrievalOutcomes}
      [] market = "KOSDAQ" -> {get_kosdaq_stocks(o) : o \in RetrievalOutcomes}
      [] market = "SP500"  -> {get_sp500_stocks(o) : o \in RetrievalOutcomes}
      [] market = "NASDAQ" -> get_nasdaq_stocks

\* one returned value for each market of the request that market_functions
\* knows; the other functions are not called
Listings(request) ==
    LET called == Range(request) \cap market_functions
    IN  {l \in [called -> UNION {SymbolLists(m) : m \in called}] :
            \A m \in called : l[m] \in SymbolLists(m)}

\* the market lists the scheduler and its callers ask for, and one naming a
\* market that market_functions does not know
ScreeningRequests ==
    {<<"NASDAQ", "SP500">>, <<"KOSPI", "KOSDAQ">>, <<"NYSE", "SP500">>}

\* the data a screened symbol may have: none, data the analysis raises on,
\* and frames scoring 1.5, 2.5 and 3.5 CANSLIM points
BaseSignals ==
    [current_price |-> 100, high_52w |-> Num(100), has_benchmark |-> TRUE,
     rs_6m |-> Num(-4), ma_20 |-> NaN, ma20_slope |-> Num(0),
     macd |-> [error |-> "insufficient_data"],
     volatility |-> [error |-> "calculation_failed"]]
WeakFrame   == Frame(BaseSignals)
MidFrame    == Frame([BaseSignals EXCEPT !.rs_6m = Num(6)])
StrongFrame == Frame([BaseSignals EXCEPT !.rs_6m = Num(20006)])
ScreenedData == {NoData, BadData, WeakFrame, MidFrame, StrongFrame}

ListedSymbols(request, l) ==
    UNION {Range(l[m].items) : m \in {k \in DOMAIN l : l[k] # None}}

Collect_without_none_check(res, result) == Append(res, result)

\* lines 303-305: a future's value is appended unless it is None
Collect(res, result) == IF result # None THEN Append(res, result) ELSE res

as_completed_yields_again(fs, yielded) ==
    {i \in DOMAIN fs : fs[i].state = "done"}

\* the futures as_completed may yield next: finished and not yet yielded
as_completed(fs, yielded) ==
    {i \in DOMAIN fs : fs[i].state = "done" /\ i \notin yielded}

RECURSIVE InsertByScore(_, _)
\* e placed after every element whose score is not below its own
InsertByScore(sorted, e) ==
    IF sorted = <<>> THEN <<e>>
    ELSE IF Get(Head(sorted), "overall_score", 0) >= Get(e, "overall_score", 0)
         THEN <<Head(sorted)>> \o InsertByScore(Tail(sorted), e)
         ELSE <<e>> \o sorted

RECURSIVE sort_by_score_reverse(_)
\* list.sort(key=overall_score, reverse=True): stable, descending
sort_by_score_reverse(l) ==
    IF l = <<>> THEN <<>>
    ELSE InsertByScore(sort_by_score_reverse(SubSeq(l, 1, Len(l) - 1)), l[Len(l)])

Init ==
    /\ markets_to_screen \in ScreeningRequests
    /\ listing \in Listings(markets_to_screen)
    /\ history \in [ListedSymbols(markets_to_screen, listing) -> ScreenedData]
    /\ max_workers \in (1..MaxWorkers) \cup {ScreeningWorkers}
    /\ pc = "loop"
    /\ market_idx = 1
    /\ futures = <<>>
    /\ collected = {}
    /\ results = <<>>
    /\ all_results = <<>>
    /\ run_no = 1
    /\ first_run = <<>>
    /\ ScoreIdle
    /\ RecIdle
    /\ SessionIdle
    /\ DiffIdle
    /\ SignalIdle
    /\ IndicatorIdle
    /\ SectorIdle

market_name == markets_to_screen[market_idx]

\* the list analyze_stock_batch is working on
symbols == listing[market_name].items

\* lines 377-380 and 292-294: the market's list is fetched and every symbol
\* is submitted to the pool
SubmitBatch ==
    /\ pc = "loop"
    /\ market_idx <= Len(markets_to_screen)
    /\ market_name \in market_functions
    /\ listing[market_name] # None
    /\ futures' = [i \in DOMAIN symbols |->
                     [symbol |-> symbols[i], state |-> "queued", result |-> None]]
    /\ collected' = {}
    /\ results' = <<>>
    /\ pc' = "collect"
    /\ UNCHANGED <<markets_to_screen, listing, history, max_workers, market_idx,
                   all_results, run_no, first_run, scoreVars, recVars, sessionVars, diffVars, signalVars, indicatorVars, sectorVars>>

\* line 277: analyze_stock_batch starts with len(symbols), which raises
\* TypeError on None; nothing between there and the caller of
\* run_market_specific_screening catches it, so the run ends without a
\* result
BatchRaises ==
    /\ pc = "loop"
    /\ market_idx <= Len(markets_to_screen)
    /\ market_name \in market_functions
    /\ listing[market_name] = None
    /\ pc' = "raised"
    /\ UNCHANGED <<markets_to_screen, listing, history, max_workers, market_idx, futures,
                   collected, results, all_results, run_no, first_run, scoreVars, recVars, sessionVars, diffVars, signalVars, indicatorVars, sectorVars>>

\* line 378: a name that is no key of market_functions is passed over
SkipMarket ==
    /\ pc = "loop"
    /\ market_idx <= Len(markets_to_screen)
    /\ market_name \notin market_functions
    /\ market_idx' = market_idx + 1
    /\ UNCHANGED <<markets_to_screen, listing, history, max_workers, pc, futures,
                   collected, results, all_results, run_no, first_run, scoreVars, recVars, sessionVars, diffVars, signalVars, indicatorVars, sectorVars>>

Running == {i \in DOMAIN futures : futures[i].state = "running"}

\* a pool thread takes the oldest queued task; at most max_workers run
WorkerStart(i) ==
    /\ pc = "collect"
    /\ futures[i].state = "queued"
    /\ \A j \in 1..(i - 1) : futures[j].state # "queued"
    /\ Cardinality(Running) < max_workers
    /\ futures' = [futures EXCEPT ![i].state = "running"]
    /\ UNCHANGED <<markets_to_screen, listing, history, max_workers, pc, market_idx,
                   collected, results, all_results, run_no, first_run, scoreVars, recVars, sessionVars, diffVars, signalVars, indicatorVars, sectorVars>>

\* the task returns and its future holds the value
WorkerFinish(i) ==
    /\ pc = "collect"
    /\ futures[i].state = "running"
    /\ futures' = [futures EXCEPT
                     ![i].state = "done",
                     ![i].result = analyze_single_stock(futures[i].symbol, market_name,
                                                        history[futures[i].symbol])]
    /\ UNCHANGED <<markets_to_screen, listing, history, max_workers, pc, market_idx,
                   collected, results, all_results, run_no, first_run, scoreVars, recVars, sessionVars, diffVars, signalVars, indicatorVars, sectorVars>>

\* one pass of the loop of lines 298-305, in the main thread
CollectFuture(i) ==
    /\ pc = "collect"
    /\ i \in as_completed(futures, collected)
    /\ results' = Collect(results, futures[i].result)
    /\ collected' = collected \cup {i}
    /\ UNCHANGED <<markets_to_screen, listing, history, max_workers, pc, market_idx,
                   futures, all_results, run_no, first_run, scoreVars, recVars, sessionVars, diffVars, signalVars, indicatorVars, sectorVars>>

BatchComplete == pc = "collect" /\ collected = DOMAIN futures

\* lines 316 and 381: the batch returns and its list is appended
ReturnBatch ==
    /\ BatchComplete
    /\ all_results' = all_results \o results
    /\ market_idx' = market_idx + 1
    /\ pc' = "loop"
    /\ UNCHANGED <<markets_to_screen, listing, history, max_workers, futures,
                   collected, results, run_no, first_run, scoreVars, recVars, sessionVars, diffVars, signalVars, indicatorVars, sectorVars>>

\* line 384 and the return (the snapshot file is not modelled)
SortAndReturn ==
    /\ pc = "loop"
    /\ market_idx > Len(markets_to_screen)
    /\ all_results' = sort_by_score_reverse(all_results)
    /\ pc' = "done"
    /\ UNCHANGED <<markets_to_screen, listing, history, max_workers, market_idx,
                   futures, collected, results, run_no, first_run, scoreVars, recVars, sessionVars, diffVars, signalVars, indicatorVars, sectorVars>>

Next ==
    \/ SubmitBatch
    \/ BatchRaises
    \/ SkipMarket
    \/ \E i \in DOMAIN futures : WorkerStart(i)
    \/ \E i \in DOMAIN futures : WorkerFinish(i)
    \/ \E i \in DOMAIN futures : CollectFuture(i)
    \/ ReturnBatch
    \/ SortAndReturn

Spec == Init /\ [][Next]_vars

\* a second run over the same markets and the same histories; the lists
\* hold the same symbols, NASDAQ's in whatever order the set gives this time
Rerun ==
    /\ pc = "done"
    /\ run_no = 1
    /\ first_run' = all_results
    /\ run_no' = 2
    /\ listing' \in {l \in Listings(markets_to_screen) : ListedSymbols(markets_to_screen, l) = DOMAIN history}
    /\ pc' = "loop"
    /\ market_idx' = 1
    /\ futures' = <<>>
    /\ collected' = {}
    /\ results' = <<>>
    /\ all_results' = <<>>
    /\ UNCHANGED <<markets_to_screen, history, max_workers, scoreVars, recVars, sessionVars, diffVars, signalVars, indicatorVars, sectorVars>>

NextRerun == Next \/ Rerun

SpecRerun == Init /\ [][NextRerun]_vars

---------------------------------------------------------------------------
(* CANSLIMAnalyzer: the caution analysis of a basket.                      *)
(*                                                                         *)
(* A basket is the list of what get_stock_data yields for each symbol of   *)
(* the call.  A member with data is summarised by what the four analyses   *)
(* read of it: sessions is len(data); return_3m, return_6m and return_1y   *)
(* are (last close / close 63, 126, 252 sessions back - 1) * 100 in whole  *)
(* percent; price_vs_high is last close / rolling(252).max() of High in    *)
(* hundredths, nan on a frame of fewer than 252 sessions.  A member on     *)
(* which reading a column raises is BadMember.                             *)

Member(n, r3, r6, r1y, pvh) ==
    [data |-> "ok", sessions |-> n, return_3m |-> r3, return_6m |-> r6,
     return_1y |-> r1y, price_vs_high |-> pvh]

ShortMember == Member(100, 5, 0, 0, NaN)
MidHot      == Member(126, 35, 60, 0, NaN)
LongCalm    == Member(252, 5, 10, 50, Num(80))
LongHot     == Member(252, 35, 60, 1200, Num(95))
BadMember   == [data |-> "corrupt", sessions |-> 126]

Members == {NoData, BadMember, ShortMember, MidHot, LongCalm, LongHot}

\* lines 139-143: the symbols whose data is neither None nor empty
valid_data(symbol_list) == SelectSeq(symbol_list, LAMBDA m : m.data # "none")

\* the members an analysis looks at: "if len(data) >= n"
Eligible(data_dict, n) == SelectSeq(data_dict, LAMBDA m : m.sessions >= n)

\* the loop of an analysis raises when it reads a column of a bad member
LoopRaises(data_dict, n) ==
    \E i \in DOMAIN data_dict : data_dict[i].data = "corrupt" /\ data_dict[i].sessions >= n

RECURSIVE SumOf(_)
SumOf(seq) == IF seq = <<>> THEN 0 ELSE Head(seq) + SumOf(Tail(seq))

RECURSIVE InsertAscending(_, _)
InsertAscending(sorted, x) ==
    IF sorted = <<>> THEN <<x>>
    ELSE IF Head(sorted) <= x THEN <<Head(sorted)>> \o InsertAscending(Tail(sorted), x)
    ELSE <<x>> \o sorted

RECURSIVE sorted_ascending(_)
sorted_ascending(seq) ==
    IF seq = <<>> THEN <<>>
    ELSE InsertAscending(sorted_ascending(Tail(seq)), Head(seq))

_analyze_laggard_performance_single_laggard(data_dict) ==
    IF LoopRaises(data_dict, 126) THEN [error |-> "calculation_failed"]
    ELSE
    LET eligible == Eligible(data_dict, 126)
        performance_6m == [i \in DOMAIN eligible |-> eligible[i].return_6m]
    IN  IF performance_6m = <<>> THEN [error |-> "insufficient_data"]
        ELSE
        LET sorted_performance == sorted_ascending(performance_6m)
            laggards_surge == sorted_performance[1] >= 50
        IN  [laggard_count |-> Max(1, Len(sorted_performance) \div 4),
             laggards_surge_50pct |-> laggards_surge,
             warning_signal |-> laggards_surge]

\* lines 355-391; the mean of the lowest quarter is compared as a sum
_analyze_laggard_performance(data_dict) ==
    IF LoopRaises(data_dict, 126) THEN [error |-> "calculation_failed"]
    ELSE
    LET eligible == Eligible(data_dict, 126)
        performance_6m == [i \in DOMAIN eligible |-> eligible[i].return_6m]
    IN  IF performance_6m = <<>> THEN [error |-> "insufficient_data"]
        ELSE
        LET sorted_performance == sorted_ascending(performance_6m)
            quarter == Len(sorted_performance) \div 4
            bottom_25_pct == IF quarter = 0 THEN 1 ELSE quarter
            laggard_returns == SubSeq(sorted_performance, 1, bottom_25_pct)
            laggards_surge == SumOf(laggard_returns) >= 50 * Len(laggard_returns)
        IN  [laggard_count |-> Len(laggard_returns),
             laggards_surge_50pct |-> laggards_surge,
             warning_signal |-> laggards_surge]

\* lines 393-424
_analyze_pbr_levels(data_dict) ==
    IF LoopRaises(data_dict, 126) THEN [error |-> "calculation_failed"]
    ELSE
    LET eligible == Eligible(data_dict, 126)
        total_count == Len(eligible)
        high_valuation_count ==
            Len(SelectSeq(eligible, LAMBDA m : FGe(m.price_vs_high, Num(90))))
    IN  [high_valuation_count |-> high_valuation_count,
         total_analyzed |-> total_count,
         warning_signal |-> total_count > 0 /\ 2 * high_valuation_count >= total_count]

\* lines 426-453
_analyze_leverage_risk(data_dict) ==
    IF LoopRaises(data_dict, 252) THEN [error |-> "calculation_failed"]
    ELSE
    LET eligible == Eligible(data_dict, 252)
        extreme_gains == Len(SelectSeq(eligible, LAMBDA m : m.return_1y >= 1000))
    IN  [extreme_gain_count |-> extreme_gains,
         total_analyzed |-> Len(eligible),
         warning_signal |-> extreme_gains > 0]

\* lines 455-492; a mean over no symbol is 0
_analyze_market_heat(data_dict) ==
    IF LoopRaises(data_dict, 126) THEN [error |-> "calculation_failed"]
    ELSE
    LET eligible == Eligible(data_dict, 126)
        returns_3m == [i \in DOMAIN eligible |-> eligible[i].return_3m]
        returns_6m == [i \in DOMAIN eligible |-> eligible[i].return_6m]
        overheated_3m == returns_3m # <<>> /\ SumOf(returns_3m) >= 30 * Len(returns_3m)
        overheated_6m == returns_6m # <<>> /\ SumOf(returns_6m) >= 50 * Len(returns_6m)
    IN  [overheated_3m |-> overheated_3m,
         overheated_6m |-> overheated_6m,
         warning_signal |-> overheated_3m \/ overheated_6m]

SignalTypes == {"laggard_surge", "high_pbr", "leverage_risk", "market_heat"}

_calculate_caution_score_counts_errors(signals) ==
    Cardinality({t \in DOMAIN signals : Get(signals[t], "warning_signal", TRUE)})

_calculate_caution_score_two_per_warning(signals) ==
    2 * Cardinality({t \in DOMAIN signals : Get(signals[t], "warning_signal", FALSE)})

\* lines 535-546: one point for each signal whose warning_signal is true
_calculate_caution_score(signals) ==
    Cardinality({t \in DOMAIN signals : Get(signals[t], "warning_signal", FALSE)})

\* lines 123-169
analyze_caution_criteria(symbol_list) ==
    LET data_dict == valid_data(symbol_list)
    IN  IF data_dict = <<>> THEN [error |-> "no_valid_data"]
        ELSE
        LET caution_signals ==
                [laggard_surge |-> _analyze_laggard_performance(data_dict),
                 high_pbr      |-> _analyze_pbr_levels(data_dict),
                 leverage_risk |-> _analyze_leverage_risk(data_dict),
                 market_heat   |-> _analyze_market_heat(data_dict)]
            caution_score == _calculate_caution_score(caution_signals)
        IN  [symbol_count |-> Len(symbol_list),
             caution_signals |-> caution_signals,
             caution_score |-> caution_score,
             high_caution |-> caution_score >= 5]

---------------------------------------------------------------------------
(* One analyzer session: the object after __init__ and the operations      *)
(* called on it.  benchmark_data is None when loading the benchmark        *)
(* raised; otherwise it is the frame the provider gave, which may be       *)
(* empty.                                                                  *)

BenchmarkSeries == [type |-> "series", sessions |-> 500]
EmptySeries     == [type |-> "series", sessions |-> 0]

\* lines 32-38: what self.benchmark_data is after _load_benchmark_data
_load_benchmark_data(fetched) == IF fetched = Raised THEN None ELSE fetched

BenchmarkFetches == {Raised, EmptySeries, BenchmarkSeries}

WithBenchmark_always_present(d, benchmark) ==
    IF d.data # "ok" THEN d
    ELSE Frame([d.sig EXCEPT !.has_benchmark = TRUE])

\* lines 86-88: the market-performance signals of a symbol are computed
\* against self.benchmark_data: not at all when it is None, and with no
\* common date (nan) when it is empty
WithBenchmark(d, benchmark) ==
    IF d.data # "ok" THEN d
    ELSE Frame([d.sig EXCEPT
                  !.has_benchmark = (benchmark # None),
                  !.rs_6m = IF benchmark = BenchmarkSeries THEN @ ELSE NaN])

TopFrame ==
    Frame([current_price |-> 100, high_52w |-> Num(100), has_benchmark |-> TRUE,
           rs_6m |-> Num(20006), ma_20 |-> Num(95), ma20_slope |-> Num(1),
           macd |-> [downward_reversal_signal |-> FALSE, sell_preparation_needed |-> FALSE],
           volatility |-> [strength_ratio |-> PosInf]])

\* what get_stock_data may yield for the symbol of a call
SessionData == {NoData, BadData, MidFrame, TopFrame}

\* the longest basket of a call
MaxBasket == 2

RECURSIVE SeqsUpTo(_, _)
SeqsUpTo(S, n) ==
    IF n = 0 THEN {<<>>}
    ELSE LET shorter == SeqsUpTo(S, n - 1)
         IN  shorter \cup {Append(q, x) : q \in {r \in shorter : Len(r) = n - 1}, x \in S}

Baskets == SeqsUpTo(Members, MaxBasket)

generate_report_leadership_score_assumed(symbol, d, sector_symbols, benchmark) ==
    LET leadership_result == analyze_leadership_criteria(symbol, WithBenchmark(d, benchmark))
        caution_analysis ==
            IF sector_symbols # None /\ sector_symbols.items # <<>>
            THEN analyze_caution_criteria(sector_symbols.items)
            ELSE None
    IN  IF leadership_result = Raised \/ "leadership_score" \notin DOMAIN leadership_result
        THEN Raised
        ELSE [symbol |-> symbol,
              leadership_analysis |-> leadership_result,
              caution_analysis |-> caution_analysis,
              recommendation |-> _generate_recommendation(leadership_result, caution_analysis)]

\* lines 565-588; sector_symbols is None or ListOf(a basket); an exception
\* of the leadership analysis leaves generate_report
generate_report(symbol, d, sector_symbols, benchmark) ==
    LET leadership_result == analyze_leadership_criteria(symbol, WithBenchmark(d, benchmark))
        caution_analysis ==
            IF sector_symbols # None /\ sector_symbols.items # <<>>
            THEN analyze_caution_criteria(sector_symbols.items)
            ELSE None
    IN  IF leadership_result = Raised THEN Raised
        ELSE [symbol |-> symbol,
              leadership_analysis |-> leadership_result,
              caution_analysis |-> caution_analysis,
              recommendation |-> _generate_recommendation(leadership_result, caution_analysis)]

InitSession ==
    /\ \E fetched \in BenchmarkFetches : benchmark_data = _load_benchmark_data(fetched)
    /\ benchmark_loads = 1
    /\ op = "none"
    /\ symbol_data = NotCalled
    /\ basket = NotCalled
    /\ returned = NotCalled
    /\ ScoreIdle
    /\ RecIdle
    /\ ScreenIdle
    /\ DiffIdle
    /\ SignalIdle
    /\ IndicatorIdle
    /\ SectorIdle

CallAnalyzeLeadership ==
    /\ \E d \in SessionData :
         /\ symbol_data' = d
         /\ returned' = analyze_leadership_criteria(ScoredSymbol, WithBenchmark(d, benchmark_data))
    /\ basket' = NotCalled
    /\ op' = "analyze_leadership_criteria"
    /\ UNCHANGED <<benchmark_data, benchmark_loads, scoreVars, recVars, screenVars,
                   diffVars, signalVars, indicatorVars, sectorVars>>

CallAnalyzeCaution ==
    /\ \E b \in Baskets :
         /\ basket' = ListOf(b)
         /\ returned' = analyze_caution_criteria(b)
    /\ symbol_data' = NotCalled
    /\ op' = "analyze_caution_criteria"
    /\ UNCHANGED <<benchmark_data, benchmark_loads, scoreVars, recVars, screenVars,
                   diffVars, signalVars, indicatorVars, sectorVars>>

CallGenerateReport ==
    /\ \E d \in SessionData, b \in {None} \cup {ListOf(q) : q \in Baskets} :
         /\ symbol_data' = d
         /\ basket' = b
         /\ returned' = generate_report(ScoredSymbol, d, b, benchmark_data)
    /\ op' = "generate_report"
    /\ UNCHANGED <<benchmark_data, benchmark_loads, scoreVars, recVars, screenVars,
                   diffVars, signalVars, indicatorVars, sectorVars>>

NextSession == CallAnalyzeLeadership \/ CallAnalyzeCaution \/ CallGenerateReport

SpecSession == InitSession /\ [][NextSession]_vars

---------------------------------------------------------------------------
(* MarketScreener: change detection between a result list and a previous   *)
(* snapshot.  An entry is reduced to the three fields detect_changes       *)
(* reads; overall_score is in tenths, so "10 points" is 100.               *)

Entry(sym, score, market) == [symbol |-> sym, overall_score |-> score, market |-> market]

\* scores 0.1, 9.9 and 10.0 apart
SnapshotScores == {357, 456, 457}

\* AAPL is listed under NASDAQ and under SP500
Entries ==
    {Entry(sym, sc, "SP500") : sym \in {"AAPL", "MSFT"}, sc \in SnapshotScores}
    \cup {Entry("AAPL", 357, "NASDAQ")}

\* the longest result list and snapshot
MaxEntries == 2

ResultLists == SeqsUpTo(Entries, MaxEntries)

\* a ranked list longer than the lists above: the first n names of the
\* fallback list of get_sp500_stocks, each under SP500 with the same score
RankedSymbols ==
    <<"AAPL", "MSFT", "GOOGL", "AMZN", "TSLA", "META", "NVDA", "BRK-B",
      "UNH", "JNJ", "V", "PG", "JPM", "HD">>

RankedList(n) == [i \in 1..n |-> Entry(RankedSymbols[i], 457, "SP500")]

\* the longest ranked list
MaxRanked == 11

RankedLists == {RankedList(n) : n \in 9..MaxRanked}

\* previous_file: no name given (None), a name with no file behind it, a
\* file json.load fails on, or a snapshot holding a list
MissingFile     == [exists |-> FALSE]
UnreadableFile  == [exists |-> TRUE, content |-> Raised]
SnapshotFile(l) == [exists |-> TRUE, content |-> ListOf(l)]

PreviousFiles == {None, MissingFile, UnreadableFile} \cup {SnapshotFile(l) : l \in ResultLists}

RECURSIVE DictKeys(_)
\* the keys of {r.get('symbol'): r for r in l}, in the order a dict keeps
\* them: by first occurrence
DictKeys(l) ==
    IF l = <<>> THEN <<>>
    ELSE LET before == DictKeys(SubSeq(l, 1, Len(l) - 1))
             key == l[Len(l)].symbol
         IN  IF key \in Range(before) THEN before ELSE Append(before, key)

\* the value the comprehension leaves under a key: the last entry with it
DictValue(l, key) ==
    l[CHOOSE i \in DOMAIN l :
        /\ l[i].symbol = key
        /\ \A j \in DOMAIN l : l[j].symbol = key => j <= i]

Abs(x) == IF x < 0 THEN -x ELSE x

NoChanges == [new_entries |-> <<>>, score_changes |-> <<>>, dropped_out |-> <<>>]

detect_changes_any_difference(new, previous) ==
    IF previous = None \/ ~ previous.exists
    THEN [NoChanges EXCEPT !.new_entries = Take(new, 10)]
    ELSE IF previous.content = Raised THEN NoChanges
    ELSE
    LET previous_results == previous.content.items
        prev_keys == DictKeys(previous_results)
        new_keys  == DictKeys(new)
        added   == SelectSeq(new_keys, LAMBDA k : k \notin Range(prev_keys))
        kept    == SelectSeq(new_keys, LAMBDA k :
                       /\ k \in Range(prev_keys)
                       /\ Abs(DictValue(new, k).overall_score
                              - DictValue(previous_results, k).overall_score) >= 0)
        dropped == SelectSeq(prev_keys, LAMBDA k : k \notin Range(new_keys))
    IN  [new_entries   |-> [i \in DOMAIN added |-> DictValue(new, added[i])],
         score_changes |-> [i \in DOMAIN kept |->
                              [symbol    |-> kept[i],
                               old_score |-> DictValue(previous_results, kept[i]).overall_score,
                               new_score |-> DictValue(new, kept[i]).overall_score,
                               change    |-> DictValue(new, kept[i]).overall_score
                                             - DictValue(previous_results, kept[i]).overall_score,
                               market    |-> DictValue(new, kept[i]).market]],
         dropped_out   |-> [i \in DOMAIN dropped |-> DictValue(previous_results, dropped[i])]]

detect_changes_without_cut(new, previous) ==
    IF previous = None \/ ~ previous.exists
    THEN [NoChanges EXCEPT !.new_entries = new]
    ELSE IF previous.content = Raised THEN NoChanges
    ELSE
    LET previous_results == previous.content.items
        prev_keys == DictKeys(previous_results)
        new_keys  == DictKeys(new)
        added   == SelectSeq(new_keys, LAMBDA k : k \notin Range(prev_keys))
        kept    == SelectSeq(new_keys, LAMBDA k :
                       /\ k \in Range(prev_keys)
                       /\ Abs(DictValue(new, k).overall_score
                              - DictValue(previous_results, k).overall_score) >= 100)
        dropped == SelectSeq(prev_keys, LAMBDA k : k \notin Range(new_keys))
    IN  [new_entries   |-> [i \in DOMAIN added |-> DictValue(new, added[i])],
         score_changes |-> [i \in DOMAIN kept |->
                              [symbol    |-> kept[i],
                               old_score |-> DictValue(previous_results, kept[i]).overall_score,
                               new_score |-> DictValue(new, kept[i]).overall_score,
                               change    |-> DictValue(new, kept[i]).overall_score
                                             - DictValue(previous_results, kept[i]).overall_score,
                               market    |-> DictValue(new, kept[i]).market]],
         dropped_out   |-> [i \in DOMAIN dropped |-> DictValue(previous_results, dropped[i])]]

\* lines 402-453
detect_changes(new, previous) ==
    IF previous = None \/ ~ previous.exists
    THEN [NoChanges EXCEPT !.new_entries = Take(new, 10)]
    ELSE IF previous.content = Raised THEN NoChanges
    ELSE
    LET previous_results == previous.content.items
        prev_keys == DictKeys(previous_results)
        new_keys  == DictKeys(new)
        added   == SelectSeq(new_keys, LAMBDA k : k \notin Range(prev_keys))
        kept    == SelectSeq(new_keys, LAMBDA k :
                       /\ k \in Range(prev_keys)
                       /\ Abs(DictValue(new, k).overall_score
                              - DictValue(previous_results, k).overall_score) >= 100)
        dropped == SelectSeq(prev_keys, LAMBDA k : k \notin Range(new_keys))
    IN  [new_entries   |-> [i \in DOMAIN added |-> DictValue(new, added[i])],
         score_changes |-> [i \in DOMAIN kept |->
                              [symbol    |-> kept[i],
                               old_score |-> DictValue(previous_results, kept[i]).overall_score,
                               new_score |-> DictValue(new, kept[i]).overall_score,
                               change    |-> DictValue(new, kept[i]).overall_score
                                             - DictValue(previous_results, kept[i]).overall_score,
                               market    |-> DictValue(new, kept[i]).market]],
         dropped_out   |-> [i \in DOMAIN dropped |-> DictValue(previous_results, dropped[i])]]

InitDiff ==
    /\ new_results \in ResultLists \cup RankedLists
    /\ previous_file \in PreviousFiles
    /\ changes = NotCalled
    /\ ScoreIdle
    /\ RecIdle
    /\ ScreenIdle
    /\ SessionIdle
    /\ SignalIdle
    /\ IndicatorIdle
    /\ SectorIdle

DetectChanges ==
    /\ changes = NotCalled
    /\ changes' = detect_changes(new_results, previous_file)
    /\ UNCHANGED <<new_results, previous_file, scoreVars, recVars, screenVars,
                   sessionVars, signalVars, indicatorVars, sectorVars>>

NextDiff == DetectChanges

SpecDiff == InitDiff /\ [][NextDiff]_vars

---------------------------------------------------------------------------
(* CANSLIMAnalyzer: from a price series to the signals.                    *)
(*                                                                         *)
(* A series is summarised by what the computations read of it: sessions    *)
(* is len(data); common_dates the number of its dates the benchmark has    *)
(* too; last_close the last Close; max_high the largest High of the        *)
(* trailing 252 sessions, or of all sessions when there are fewer;         *)
(* mean_close the mean Close of the trailing 100; strength_3m and          *)
(* strength_6m the excess return over the benchmark from 63 and 126 common *)
(* sessions back, in thousandths of a point, where that many exist.        *)

DefaultPeriod_five_years == "5y"

\* line 40: the period of get_stock_data when the caller names none, as
\* analyze_leadership_criteria does (line 65)
DefaultPeriod == "2y"

\* the most sessions ticker.history gives for a period: 253 a year
PeriodSessions(period) == IF period = "2y" THEN 506 ELSE 1265

\* the lengths len(data) takes: all up to what the period allows
SessionCounts ==
    {n \in {1, 62, 63, 125, 126, 179, 180, 251, 252, 500, 506, 1265} :
        n <= PeriodSessions(DefaultPeriod)}

PriceSeries ==
    {p \in [sessions : SessionCounts, common_dates : SessionCounts \cup {0},
            last_close : {94, 100}, max_high : {100}, mean_close : {95},
            strength_3m : {-3000, 5000}, strength_6m : {-4000, 6000}] :
        p.common_dates <= p.sessions}

\* Series.rolling(window).max().iloc[-1] and .mean().iloc[-1]: min_periods
\* defaults to the window, so a shorter series gives nan
rolling_last(sessions, window, value) == IF sessions < window THEN NaN ELSE Num(value)

\* lines 194-237
_calculate_relative_strength(p) ==
    IF p.common_dates < 180 THEN [3m |-> NaN, 6m |-> NaN]
    ELSE [3m |-> IF p.common_dates >= 63 THEN Num(p.strength_3m) ELSE NaN,
          6m |-> IF p.common_dates >= 126 THEN Num(p.strength_6m) ELSE NaN]

\* _convert_to_monthly: one bar for each calendar month the series touches,
\* a month holding about 21 sessions
MonthlyBars(p) == (p.sessions + 20) \div 21

\* lines 75-115: the signals analyze_leadership_criteria computes from the
\* series, with the session's benchmark present.  The slope of the moving
\* average is fitted over its last 20 values, which hold a nan until the
\* series has 119 sessions; the fit then fails and _calculate_slope
\* returns 0.  MACD needs 35 monthly bars; the volatility analysis indexes
\* the last return and fails on a series of one session.
SignalsOf(p) ==
    [current_price |-> p.last_close,
     high_52w      |-> rolling_last(p.sessions, 252, p.max_high),
     has_benchmark |-> TRUE,
     rs_6m         |-> _calculate_relative_strength(p)["6m"],
     ma_20         |-> rolling_last(p.sessions, 100, p.mean_close),
     ma20_slope    |-> IF p.sessions < 119 THEN Num(0) ELSE Num(1),
     macd          |-> IF MonthlyBars(p) < 35
                       THEN [error |-> "insufficient_data"]
                       ELSE [downward_reversal_signal |-> FALSE,
                             sell_preparation_needed |-> FALSE],
     volatility    |-> IF p.sessions < 2
                       THEN [error |-> "calculation_failed"]
                       ELSE [strength_ratio |-> Num(150)]]

InitSignals ==
    /\ price_series \in PriceSeries
    /\ evaluation = NotCalled
    /\ ScoreIdle
    /\ RecIdle
    /\ ScreenIdle
    /\ SessionIdle
    /\ DiffIdle
    /\ IndicatorIdle
    /\ SectorIdle

\* the relative strength alone
ComputeRelativeStrength ==
    /\ evaluation = NotCalled
    /\ evaluation' = [relative_strength |-> _calculate_relative_strength(price_series)]
    /\ UNCHANGED <<price_series, scoreVars, recVars, screenVars, sessionVars, diffVars,
                   indicatorVars, sectorVars>>

\* the whole analysis of the series
EvaluateSeries ==
    /\ "result" \notin DOMAIN evaluation
    /\ evaluation' =
         [relative_strength |-> _calculate_relative_strength(price_series),
          high_52w |-> SignalsOf(price_series).high_52w,
          result   |-> analyze_leadership_criteria(ScoredSymbol, Frame(SignalsOf(price_series))),
          stock    |-> analyze_stock(ScoredSymbol, Frame(SignalsOf(price_series)))]
    /\ UNCHANGED <<price_series, scoreVars, recVars, screenVars, sessionVars, diffVars,
                   indicatorVars, sectorVars>>

NextSignals == ComputeRelativeStrength \/ EvaluateSeries

SpecSignals == InitSignals /\ [][NextSignals]_vars

---------------------------------------------------------------------------
(* CANSLIMAnalyzer: the two indicators computed from the price series.     *)
(*                                                                         *)
(* _analyze_volatility reads returns = Close.pct_change().dropna(), here a *)
(* sequence of daily returns in hundredths of a percent.  _analyze_macd    *)
(* reads the monthly bars; they are summarised by their number, by whether *)
(* reading the Close column succeeds, and by the last three values         *)
(* [h0, h1, h2] of the MACD histogram computed from them.  TA-Lib leaves   *)
(* the first 33 histogram values nan, so h0 is nan on 35 bars.             *)

ReturnValues == {-700, -1, 0, 1, 2}

\* the longest series of daily returns
MaxReturns == 3

\* returns.tail(20)
RecentSessions == 20

ReturnSeries == SeqsUpTo(ReturnValues, MaxReturns)

\* Series.tail(n)
tail(seq, n) == IF Len(seq) <= n THEN seq ELSE SubSeq(seq, Len(seq) - n + 1, Len(seq))

\* lines 328-353.  rolling(20).std().iloc[-1] raises on a series with no
\* return, which the except turns into the error.  avg_up and avg_down are
\* the means of the positive and of the negative returns of the window, 0
\* when it has none; strength_ratio, in hundredths, is
\* round(abs(avg_up / avg_down), 2) = round(100 * sum_up * down_days /
\* (-sum_down * up_days)).
_analyze_volatility(returns) ==
    IF returns = <<>> THEN [error |-> "calculation_failed"]
    ELSE
    LET recent_returns == tail(returns, RecentSessions)
        ups   == SelectSeq(recent_returns, LAMBDA r : r > 0)
        downs == SelectSeq(recent_returns, LAMBDA r : r < 0)
        up_days   == Len(ups)
        down_days == Len(downs)
    IN  [up_days |-> up_days,
         down_days |-> down_days,
         strength_ratio |->
            IF down_days > 0
            THEN IF up_days > 0
                 THEN Num(round_div(100 * SumOf(ups) * down_days, (-SumOf(downs)) * up_days))
                 ELSE Num(0)
            ELSE PosInf]

HistValues == {Num(-2), Num(-1), Num(0), Num(1), Num(2)}
MonthlyBarCounts == {0, 34, 35, 60}

\* the bars MACD needs: "if len(close) < 35"
MacdMinBars == 35

MonthlyFrames ==
    {m \in [bars : MonthlyBarCounts, close : {"ok", "corrupt"},
            hist : (HistValues \cup {NaN}) \X HistValues \X HistValues] :
        m.hist[1] = NaN => m.bars = MacdMinBars}

_analyze_macd_not_rising(monthly) ==
    IF monthly.close = "corrupt" THEN [error |-> "calculation_failed"]
    ELSE IF monthly.bars < MacdMinBars THEN [error |-> "insufficient_data"]
    ELSE
    LET recent_hist == monthly.hist
        downward_reversal ==
            \/ FGe(recent_hist[2], Num(0)) /\ FGt(Num(0), recent_hist[3])
            \/ FGe(recent_hist[2], recent_hist[3]) /\ FGt(Num(0), recent_hist[2])
    IN  [downward_reversal_signal |-> downward_reversal,
         sell_preparation_needed  |-> downward_reversal]

\* lines 288-326; the current_* fields, which no scorer reads, are left out
_analyze_macd(monthly) ==
    IF monthly.close = "corrupt" THEN [error |-> "calculation_failed"]
    ELSE IF monthly.bars < MacdMinBars THEN [error |-> "insufficient_data"]
    ELSE
    LET recent_hist == monthly.hist
        downward_reversal ==
            \/ FGt(recent_hist[2], Num(0)) /\ FGt(Num(0), recent_hist[3])
            \/ FGt(recent_hist[2], recent_hist[3]) /\ FGt(Num(0), recent_hist[2])
    IN  [downward_reversal_signal |-> downward_reversal,
         sell_preparation_needed  |-> downward_reversal]

InitIndicator ==
    /\ indicator_input \in {[returns |-> r] : r \in ReturnSeries}
                           \cup {[monthly |-> m] : m \in MonthlyFrames}
    /\ indicator = NotCalled
    /\ ScoreIdle
    /\ RecIdle
    /\ ScreenIdle
    /\ SessionIdle
    /\ DiffIdle
    /\ SignalIdle
    /\ SectorIdle

AnalyzeVolatility ==
    /\ indicator = NotCalled
    /\ "returns" \in DOMAIN indicator_input
    /\ indicator' = _analyze_volatility(indicator_input.returns)
    /\ UNCHANGED <<indicator_input, scoreVars, recVars, screenVars, sessionVars, diffVars,
                   signalVars, sectorVars>>

AnalyzeMacd ==
    /\ indicator = NotCalled
    /\ "monthly" \in DOMAIN indicator_input
    /\ indicator' = _analyze_macd(indicator_input.monthly)
    /\ UNCHANGED <<indicator_input, scoreVars, recVars, screenVars, sessionVars, diffVars,
                   signalVars, sectorVars>>

NextIndicator == AnalyzeVolatility \/ AnalyzeMacd

SpecIndicator == InitIndicator /\ [][NextIndicator]_vars

---------------------------------------------------------------------------
(* CANSLIMAnalyzer: the caution signals of a sector of up to MaxSector     *)
(* symbols.  analyze_caution_criteria collects the frame of each symbol    *)
(* that has data into valid_data (sector_data here, in symbol order) and   *)
(* then computes the four signals from it.  A member carries, besides what *)
(* Member holds, its last close and max_high, the largest High of its      *)
(* trailing 252 sessions, or of all its sessions when it has fewer.        *)

\* lines 402-407: current_price / rolling(window=252).max().iloc[-1], in
\* hundredths
price_vs_high(sessions, last_close, high) ==
    LET high_52w == rolling_last(sessions, 252, high)
    IN  IF high_52w.k = "num" THEN Num((100 * last_close) \div high_52w.v) ELSE NaN

SectorMember(n, r3, r6, r1y, last_close, high) ==
    [data |-> "ok", sessions |-> n, return_3m |-> r3, return_6m |-> r6,
     return_1y |-> r1y, price_vs_high |-> price_vs_high(n, last_close, high),
     last_close |-> last_close, max_high |-> high]

\* 100 sessions: a 3-month return and no 6-month return
RecentHot    == SectorMember(100, 35, 0, 0, 100, 100)
HalfYearWarm == SectorMember(126, 20, 45, 0, 100, 100)
FullYearCalm == SectorMember(252, 5, 10, 50, 80, 100)
FullYearHot  == SectorMember(252, 35, 60, 1200, 95, 100)

SectorMembers == {RecentHot, HalfYearWarm, FullYearCalm, FullYearHot}

\* the largest number of symbols with data in a sector
MaxSector == 8

\* lines 148-162: the four signals of valid_data
caution_signals(data_dict) ==
    [laggard_surge |-> _analyze_laggard_performance(data_dict),
     high_pbr      |-> _analyze_pbr_levels(data_dict),
     leverage_risk |-> _analyze_leverage_risk(data_dict),
     market_heat   |-> _analyze_market_heat(data_dict)]

InitSector ==
    /\ sector_data = <<>>
    /\ sector_signals = NotCalled
    /\ ScoreIdle
    /\ RecIdle
    /\ ScreenIdle
    /\ SessionIdle
    /\ DiffIdle
    /\ SignalIdle
    /\ IndicatorIdle

\* lines 140-143: one pass of the loop over symbols, for a symbol with data
CollectFrame ==
    /\ sector_signals = NotCalled
    /\ Len(sector_data) < MaxSector
    /\ \E m \in SectorMembers : sector_data' = Append(sector_data, m)
    /\ UNCHANGED <<sector_signals, scoreVars, recVars, screenVars, sessionVars, diffVars,
                   signalVars, indicatorVars>>

\* lines 145-162: the list is exhausted
AnalyzeSector ==
    /\ sector_signals = NotCalled
    /\ sector_signals' = IF sector_data = <<>> THEN [error |-> "no_valid_data"]
                         ELSE caution_signals(sector_data)
    /\ UNCHANGED <<sector_data, scoreVars, recVars, screenVars, sessionVars, diffVars,
                   signalVars, indicatorVars>>

NextSector == CollectFrame \/ AnalyzeSector

SpecSector == InitSector /\ [][NextSector]_vars

---------------------------------------------------------------------------
(* Properties of the screening run (Spec, SpecRerun) *)

Failing(sym) == history[sym].data # "ok"

\* the symbol passes: its analysis succeeds and its percentage is above 30
Passes(sym) ==
    /\ history[sym].data = "ok"
    /\ analyze_stock(sym, history[sym]).overall_score > 10 * 30

EntriesFor(l, sym) == {k \in DOMAIN l : Get(l[k], "symbol", "") = sym}

\* C1: whatever symbols of a basket fail (no data, or an exception while
\* scoring), the batch runs to its end and returns exactly the entries it
\* returns for the basket without the failing symbols.
C1_FailuresNeverAbortBatch ==
    /\ (pc = "collect" /\ ~ BatchComplete) =>
           \/ as_completed(futures, collected) # {}
           \/ Running # {}
           \/ \E i \in DOMAIN futures : futures[i].state = "queued" /\ max_workers >= 1
    /\ BatchComplete =>
         LET kept == SelectSeq(symbols, LAMBDA sym : ~ Failing(sym))
             expected == {analyze_single_stock(sym, market_name, history[sym]) :
                             sym \in Range(kept)} \ {None}
         IN  /\ Range(results) = expected
             /\ Len(results) = Cardinality(expected)

C1_Witness ==
    /\ BatchComplete
    /\ Len(results) >= 1
    /\ \E sym \in Range(symbols) : history[sym] = BadData

MarketIndex(m) == CHOOSE k \in DOMAIN markets_to_screen : markets_to_screen[k] = m
SymbolIndex(m, sym) == CHOOSE k \in DOMAIN listing[m].items : listing[m].items[k] = sym

\* e1 is iterated before e2: an earlier market, or the same market and an
\* earlier place in its symbol list
IteratedBefore(e1, e2) ==
    \/ MarketIndex(e1.market) < MarketIndex(e2.market)
    \/ /\ e1.market = e2.market
       /\ SymbolIndex(e1.market, e1.symbol) < SymbolIndex(e2.market, e2.symbol)

\* C2: the returned list is in descending overall_score, and entries of
\* equal score are in basket iteration order (market order, then the order
\* of the market's symbol list).
C2_RankedWithTiesInBasketOrder ==
    pc = "done" =>
        \A i, j \in DOMAIN all_results :
            i < j =>
                \/ all_results[i].overall_score > all_results[j].overall_score
                \/ /\ all_results[i].overall_score = all_results[j].overall_score
                   /\ IteratedBefore(all_results[i], all_results[j])

Ranking(l) == [k \in DOMAIN l |-> <<l[k].symbol, l[k].overall_score>>]

\* C3: a second run over the same markets, symbol lists and histories
\* returns the same symbols with the same scores at every position.
C3_RerunGivesSameRanking ==
    (pc = "done" /\ run_no = 2) => Ranking(all_results) = Ranking(first_run)

\* C4: the batch returns an entry for a symbol exactly when its analysis
\* succeeded and its percentage is strictly above 30; no entry is at or
\* below 30, and every entry carries the market it was analysed under.
C4_EntryIffAboveFloor ==
    /\ BatchComplete =>
         \A sym \in Range(symbols) :
             (EntriesFor(results, sym) # {}) <=> Passes(sym)
    /\ pc = "collect" =>
         \A k \in DOMAIN results :
             /\ Get(results[k], "overall_score", 0) > 10 * 30
             /\ Get(results[k], "market", "") = market_name
    /\ \A k \in DOMAIN all_results :
             /\ all_results[k].overall_score > 10 * 30
             /\ all_results[k].market \in Range(markets_to_screen)

C4_Witness ==
    /\ BatchComplete
    /\ \E sym \in Range(symbols) :
           history[sym] = WeakFrame /\ EntriesFor(results, sym) = {}
    /\ \E sym \in Range(symbols) :
           history[sym] = MidFrame /\ EntriesFor(results, sym) # {}

\* C5: at every moment of a batch, for every pool size and interleaving,
\* the result list holds one entry for each collected task that passed the
\* floor and none for any other task: nothing lost, nothing appended twice.
C5_OneEntryPerPassingTask ==
    pc = "collect" =>
        \A i \in DOMAIN futures :
            Cardinality(EntriesFor(results, futures[i].symbol))
                = IF i \in collected /\ Passes(futures[i].symbol) THEN 1 ELSE 0

C5_Witness ==
    /\ BatchComplete
    /\ max_workers = 2
    /\ Len(results) = 2
    /\ results[1].symbol = symbols[2]

---------------------------------------------------------------------------
(* Properties of the recommendation policy (SpecRec) *)

GivenLeadership ==
    IF "leadership_score" \in DOMAIN leadership_in
    THEN leadership_in.leadership_score.score ELSE 0
GivenCaution ==
    IF "caution_score" \in DOMAIN caution_in THEN caution_in.caution_score ELSE 0

C7_ConfidenceClamped ==
    recommendation # NotCalled =>
        LET raw == 15 * GivenLeadership - 10 * GivenCaution
        IN  /\ recommendation.confidence \in 0..100
            /\ raw < 0 => recommendation.confidence = 0
            /\ raw > 100 => recommendation.confidence = 100
            /\ raw \in 0..100 => recommendation.confidence = raw
            /\ (GivenLeadership = 6 /\ GivenCaution = 0) => recommendation.confidence = 90

C7_Witness ==
    /\ recommendation # NotCalled
    /\ 15 * GivenLeadership - 10 * GivenCaution < 0
    /\ recommendation.confidence = 0

---------------------------------------------------------------------------
(* Properties of the scoring of one symbol (SpecScore) *)

HasFrame == "data" \in DOMAIN data_in /\ data_in.data = "ok"

\* the six leadership criteria, read off the signals; an unavailable signal
\* (nan, no benchmark, an error result) makes its criterion fail
NearHigh(s) == s.high_52w.k = "num" /\ 100 * s.current_price >= 95 * s.high_52w.v
Outperforms(s) == s.has_benchmark /\ s.rs_6m.k = "num" /\ s.rs_6m.v > 0
AboveMA(s) == s.ma_20.k = "num" /\ s.current_price > s.ma_20.v
MARising(s) == s.ma20_slope.k = "num" /\ s.ma20_slope.v > 0
NoSellSignal(s) ==
    "sell_preparation_needed" \in DOMAIN s.macd /\ ~ s.macd.sell_preparation_needed
StrongEnough(s) ==
    /\ "strength_ratio" \in DOMAIN s.volatility
    /\ \/ s.volatility.strength_ratio.k = "inf"
       \/ s.volatility.strength_ratio.k = "num" /\ s.volatility.strength_ratio.v >= 120

CriteriaHeld(s) ==
    Cardinality({n \in 1..6 :
        \/ n = 1 /\ NearHigh(s)
        \/ n = 2 /\ Outperforms(s)
        \/ n = 3 /\ AboveMA(s)
        \/ n = 4 /\ MARising(s)
        \/ n = 5 /\ NoSellSignal(s)
        \/ n = 6 /\ StrongEnough(s)})

CanslimVerdicts(e) ==
    LET c  == e.leadership_data.criteria
        sc == e.canslim_scores
        has_rs == /\ "market_performance" \in DOMAIN c
                  /\ c["market_performance"].relative_strength_6m.k = "num"
        rs == c["market_performance"].relative_strength_6m.v
    IN  /\ \A x \in {"C", "A", "S", "L", "I", "M"} : sc[x] \in {0, 2}
        /\ (sc.C = 2) <=> c["52w_high"].is_near_high
        /\ (sc.A = 2) <=> (has_rs /\ rs > 0)
        /\ sc.N = 1
        /\ (sc.S = 2) <=> (c["moving_average"].above_20w_ma /\ c["moving_average"].ma20_trending_up)
        /\ (sc.L = 2) <=> (has_rs /\ rs > 20 * 100)
        /\ (sc.I = 2) <=> (/\ "strength_ratio" \in DOMAIN c["volatility"]
                           /\ \/ c["volatility"].strength_ratio.k = "inf"
                              \/ /\ c["volatility"].strength_ratio.k = "num"
                                 /\ c["volatility"].strength_ratio.v >= 120)
        /\ (sc.M = 2) <=> (/\ "error" \notin DOMAIN c["macd"]
                           /\ ~ c["macd"].sell_preparation_needed)

IsEntry(v) == "canslim_scores" \in DOMAIN v

BinaryPasses(e) == Cardinality({x \in {"C", "A", "S", "L", "I", "M"} : e.canslim_scores[x] = 2})

\* C29: N is 0.5 in every entry, so the CANSLIM total is one of 0.5, 1.5,
\* ..., 6.5 and overall_score is neither 0 nor 100; and the symbol passes
\* the floor of 30 exactly when at least two of C, A, S, L, I, M score 1.
\* A symbol whose analysis gives no entry does not pass.
C29_HalfPointOfN ==
    /\ IsEntry(stock_out) =>
           /\ stock_out.canslim_scores.N = 1
           /\ stock_out.canslim_total \in {1, 3, 5, 7, 9, 11, 13}
           /\ stock_out.overall_score \notin {0, 1000}
    /\ (IsEntry(stock_out) /\ screened_out # NotCalled) =>
           ((screened_out # None) <=> (BinaryPasses(stock_out) >= 2))
    /\ (stock_out = None /\ screened_out # NotCalled) => screened_out = None

\* two criteria pass: 2.5 points, 35.7 percent, above the floor
C29_Witness ==
    /\ IsEntry(stock_out)
    /\ BinaryPasses(stock_out) = 2
    /\ stock_out.canslim_total = 5
    /\ stock_out.overall_score = 357
    /\ screened_out # NotCalled
    /\ screened_out # None
    /\ screened_out.market = "SP500"

\* the points of the 6-point score, one per line of
\* _calculate_leadership_score, read off the criteria of an entry
LeadershipPoints(c) ==
    [near_high   |-> Get(Get(c, "52w_high", EmptyDict), "is_near_high", FALSE),
     outperforms |-> Get(Get(c, "market_performance", EmptyDict), "outperforms_market", FALSE),
     above_ma    |-> Get(Get(c, "moving_average", EmptyDict), "above_20w_ma", FALSE),
     ma_rising   |-> Get(Get(c, "moving_average", EmptyDict), "ma20_trending_up", FALSE),
     no_sell     |-> ~ Get(Get(c, "macd", EmptyDict), "sell_preparation_needed", TRUE),
     strength    |-> FGe(Get(Get(c, "volatility", EmptyDict), "strength_ratio", Num(0)), Num(120))]

\* C11: in every entry the CANSLIM verdicts that overlap a leadership
\* criterion agree with the point of the 6-point score computed from the
\* same criteria: C with near-high, A with outperformance, S with both
\* moving-average points, I with the strength ratio, M with no sell signal.
C11_OverlappingVerdictsAgree ==
    IsEntry(stock_out) =>
        LET p  == LeadershipPoints(stock_out.leadership_data.criteria)
            sc == stock_out.canslim_scores
        IN  /\ (sc.C = 2) <=> p.near_high
            /\ (sc.A = 2) <=> p.outperforms
            /\ (sc.S = 2) <=> (p.above_ma /\ p.ma_rising)
            /\ (sc.I = 2) <=> p.strength
            /\ (sc.M = 2) <=> p.no_sell

\* C17: whatever the outcome of the live retrieval, the symbol-list
\* function of every screened market returns a list of symbols, and the run
\* goes on to analyse the market: it never ends in an exception.
C17_SymbolListAlwaysReturned ==
    /\ \A k \in DOMAIN markets_to_screen :
          (/\ markets_to_screen[k] \in market_functions
           /\ \/ k < market_idx
              \/ k = market_idx /\ pc \in {"collect", "raised"})
          => listing[markets_to_screen[k]] # None
    /\ pc # "raised"

\* C27: in the ranked list a run over several markets returns, no two
\* entries name the same symbol, also when the symbol lists of the markets
\* share a symbol.
C27_OneEntryPerSymbol ==
    pc = "done" =>
        \A i, j \in DOMAIN all_results :
            all_results[i].symbol = all_results[j].symbol => i = j

---------------------------------------------------------------------------
(* Properties of an analyzer session (SpecSession) *)

LastCaution ==
    IF op = "analyze_caution_criteria" THEN returned
    ELSE IF op = "generate_report" /\ returned # Raised THEN returned.caution_analysis
    ELSE None

Warns(signal) == "warning_signal" \in DOMAIN signal /\ signal.warning_signal

\* C12: for a basket with at least one symbol that has data, the result
\* carries the four signals and caution_score is the number of them whose
\* warning_signal is true; a signal that is an error counts as not warning.
C12_CautionScoreCountsWarnings ==
    (op = "analyze_caution_criteria" /\ valid_data(basket.items) # <<>>) =>
        /\ "caution_score" \in DOMAIN returned
        /\ DOMAIN returned.caution_signals = SignalTypes
        /\ returned.caution_score =
             Cardinality({t \in SignalTypes : Warns(returned.caution_signals[t])})

\* three signals are errors and the fourth warns
C12_Witness ==
    /\ op = "analyze_caution_criteria"
    /\ "caution_score" \in DOMAIN returned
    /\ Cardinality({t \in SignalTypes : "error" \in DOMAIN returned.caution_signals[t]}) = 3
    /\ returned.caution_score = 1

\* C13: a caution result that is not an error has caution_score in 0..4
\* and high_caution false, whether analyze_caution_criteria was called
\* directly or by generate_report; and no report recommends "very cautious".
C13_CautionNeverHigh ==
    /\ (LastCaution # None /\ "error" \notin DOMAIN LastCaution) =>
           /\ LastCaution.caution_score \in 0..4
           /\ LastCaution.high_caution = FALSE
    /\ (op = "generate_report" /\ returned # Raised) =>
           returned.recommendation.action # "very_cautious"

\* all four signals warn and the report still is a buy
C13_Witness ==
    /\ op = "generate_report"
    /\ returned # Raised
    /\ returned.caution_analysis # None
    /\ "caution_score" \in DOMAIN returned.caution_analysis
    /\ returned.caution_analysis.caution_score = 4
    /\ returned.recommendation.action = "cautious_buy"

\* C16: with no price data nothing raises: the leadership analysis of a
\* symbol without history returns an "error" field and no leadership_score,
\* the caution analysis of a basket without data returns an "error" field,
\* and generate_report returns a report carrying both and a recommendation.
C16_NoDataGivesErrorFields ==
    /\ (op = "analyze_leadership_criteria" /\ symbol_data = NoData) =>
           /\ returned # Raised
           /\ "error" \in DOMAIN returned
           /\ "leadership_score" \notin DOMAIN returned
    /\ (op = "analyze_caution_criteria" /\ valid_data(basket.items) = <<>>) =>
           "error" \in DOMAIN returned
    /\ (op = "generate_report" /\ symbol_data = NoData) =>
           /\ returned # Raised
           /\ "error" \in DOMAIN returned.leadership_analysis
           /\ returned.recommendation # None
           /\ "action" \in DOMAIN returned.recommendation
           /\ (basket # None /\ basket.items # <<>> /\ valid_data(basket.items) = <<>>) =>
                  "error" \in DOMAIN returned.caution_analysis

C16_Witness ==
    /\ op = "generate_report"
    /\ symbol_data = NoData
    /\ basket = ListOf(<<NoData>>)
    /\ returned # Raised
    /\ "error" \in DOMAIN returned.caution_analysis
    /\ returned.recommendation.action = "hold_off"

\* the leadership result of the last call, when it has criteria
LastCriteria ==
    IF op = "analyze_leadership_criteria" /\ returned # Raised /\ "criteria" \in DOMAIN returned
    THEN returned.criteria
    ELSE IF /\ op = "generate_report" /\ returned # Raised
            /\ "criteria" \in DOMAIN returned.leadership_analysis
    THEN returned.leadership_analysis.criteria
    ELSE None

\* C18: the benchmark series is fetched once, at construction; no call on
\* the session fetches it again or changes benchmark_data, and every
\* evaluation is made against that series: with market-performance signals
\* exactly when the session has one.
C18_BenchmarkLoadedOnce ==
    [][/\ benchmark_loads = 1
       /\ benchmark_loads' = 1
       /\ benchmark_data' = benchmark_data
       /\ LastCriteria' # None =>
            (("market_performance" \in DOMAIN LastCriteria') <=> (benchmark_data # None))]_vars

C18_Witness ==
    /\ op = "analyze_leadership_criteria"
    /\ benchmark_data = BenchmarkSeries
    /\ benchmark_loads = 1
    /\ LastCriteria # None
    /\ LastCriteria["market_performance"].outperforms_market

---------------------------------------------------------------------------
(* Properties of change detection (SpecDiff) *)

ReadableSnapshot ==
    /\ previous_file # None
    /\ previous_file.exists
    /\ previous_file.content # Raised

SymbolsOf(l) == {l[i].symbol : i \in DOMAIN l}

\* C14: against a readable snapshot, new_entries are the entries of the new
\* list whose symbol the snapshot lacks, dropped_out the entries of the
\* snapshot whose symbol the new list lacks, and score_changes name the
\* symbols of both whose score moved by 10 or more, each with change =
\* new_score - old_score.
C14_ChangesAreExact ==
    (changes # NotCalled /\ ReadableSnapshot) =>
        LET prev == previous_file.content.items
        IN  /\ Range(changes.new_entries) =
                 {new_results[i] : i \in {j \in DOMAIN new_results :
                                            new_results[j].symbol \notin SymbolsOf(prev)}}
            /\ Range(changes.dropped_out) =
                 {prev[i] : i \in {j \in DOMAIN prev : prev[j].symbol \notin SymbolsOf(new_results)}}
            /\ \A c \in Range(changes.score_changes) :
                 /\ c.change = c.new_score - c.old_score
                 /\ Abs(c.change) >= 100
                 /\ \E i \in DOMAIN new_results, j \in DOMAIN prev :
                      /\ new_results[i].symbol = c.symbol /\ new_results[i].overall_score = c.new_score
                      /\ prev[j].symbol = c.symbol /\ prev[j].overall_score = c.old_score
            /\ \A sym \in SymbolsOf(new_results) \cap SymbolsOf(prev) :
                 (\A i \in DOMAIN new_results, j \in DOMAIN prev :
                     (new_results[i].symbol = sym /\ prev[j].symbol = sym)
                         => Abs(new_results[i].overall_score - prev[j].overall_score) >= 100)
                 => sym \in SymbolsOf(changes.score_changes)

\* C15: against a snapshot holding the same list, nothing is reported.
C15_IdenticalSnapshotsNoChanges ==
    (/\ changes # NotCalled
     /\ ReadableSnapshot
     /\ previous_file.content.items = new_results)
        => changes = NoChanges

C15_Witness ==
    /\ changes = NoChanges
    /\ ReadableSnapshot
    /\ previous_file.content.items = new_results
    /\ Len(new_results) = MaxEntries
    /\ new_results[1].symbol = new_results[2].symbol
    /\ new_results[1].overall_score # new_results[2].overall_score

NoSnapshot == previous_file = None \/ ~ previous_file.exists

\* C30: with no previous snapshot (no file name, or no file of that name)
\* the new entries are the first 10 entries of the new list, all of them
\* when it has fewer; there are no score changes and no drop-outs, and the
\* new list itself is left as it was.
C30_FirstTenWithoutSnapshot ==
    [][(changes' # NotCalled /\ NoSnapshot) =>
          /\ changes'.new_entries = SubSeq(new_results, 1, Min(10, Len(new_results)))
          /\ changes'.score_changes = <<>>
          /\ changes'.dropped_out = <<>>
          /\ new_results' = new_results]_vars

\* a list of 11 entries, cut to its first 10
C30_Witness ==
    /\ changes # NotCalled
    /\ previous_file = MissingFile
    /\ Len(new_results) = 11
    /\ Len(changes.new_entries) = 10
    /\ changes.new_entries[10] = new_results[10]

---------------------------------------------------------------------------
(* Properties of the signals of a price series (SpecSignals) *)

Evaluated == "result" \in DOMAIN evaluation

\* C19: for a series of 1..251 sessions the 52-week high is the largest
\* High of the sessions it has, is_near_high says whether the last close is
\* at least 95 percent of it, and the evaluation returns a scored result.
C19_ShortSeriesHighOverAvailable ==
    (Evaluated /\ price_series.sessions \in 1..251) =>
        /\ evaluation.high_52w = Num(price_series.max_high)
        /\ evaluation.result # Raised
        /\ "leadership_score" \in DOMAIN evaluation.result
        /\ evaluation.result.criteria["52w_high"].is_near_high
             = (100 * price_series.last_close >= 95 * price_series.max_high)

\* C20: each horizon depends on its own length only: the 3-month strength
\* is a number exactly when 63 sessions are shared with the benchmark, the
\* 6-month strength exactly when 126 are.
C20_HorizonsIndependent ==
    evaluation # NotCalled =>
        /\ (evaluation.relative_strength["3m"].k = "num") <=> (price_series.common_dates >= 63)
        /\ (evaluation.relative_strength["6m"].k = "num") <=> (price_series.common_dates >= 126)

\* C26: a history fetched with the default period has at most 25 monthly
\* bars, fewer than the 35 MACD needs; so in every evaluation MACD is the
\* insufficient_data error, the no-sell-signal point and the CANSLIM M point
\* are not awarded, the raw leadership score is at most 5 and the grade is
\* never A+.
C26_MacdNeverAvailable ==
    Evaluated =>
        /\ MonthlyBars(price_series) <= 25
        /\ evaluation.result.criteria["macd"] = [error |-> "insufficient_data"]
        /\ ~ LeadershipPoints(evaluation.result.criteria).no_sell
        /\ evaluation.result.leadership_score.score <= 5
        /\ evaluation.result.leadership_score.grade # "A+"
        /\ evaluation.stock.canslim_scores.M = 0

\* the longest history of the period, every other point awarded
C26_Witness ==
    /\ Evaluated
    /\ price_series.sessions = PeriodSessions(DefaultPeriod)
    /\ MonthlyBars(price_series) = 25
    /\ evaluation.result.leadership_score.score = 5
    /\ evaluation.result.leadership_score.grade = "A"
    /\ evaluation.stock.canslim_scores.I = 2
    /\ evaluation.stock.canslim_scores.M = 0

---------------------------------------------------------------------------
(* Properties of the indicators (SpecIndicator) *)

VolatilityDone == "returns" \in DOMAIN indicator_input /\ indicator # NotCalled
MacdDone       == "monthly" \in DOMAIN indicator_input /\ indicator # NotCalled

RecentWindow == tail(indicator_input.returns, RecentSessions)

\* C21: over the trailing window of daily returns, strength_ratio is
\* +Infinity when no return of the window is negative, and a finite number
\* greater than 0 in every other case, also when the window has losing
\* sessions and no winning one.
C21_StrengthRatioPositive ==
    (VolatilityDone /\ "strength_ratio" \in DOMAIN indicator) =>
        IF \A i \in DOMAIN RecentWindow : RecentWindow[i] >= 0
        THEN indicator.strength_ratio = PosInf
        ELSE indicator.strength_ratio.k = "num" /\ indicator.strength_ratio.v > 0


\* C22: with at least 35 monthly bars, sell_preparation_needed is true
\* exactly when (h1 > 0 and h2 < 0) or (h2 < h1 < 0), whatever h0 is; it is
\* false when h1 or h2 is 0.  With fewer than 35 bars the result is the
\* insufficient_data error and carries no flag.
C22_SellPreparationRule ==
    (MacdDone /\ indicator_input.monthly.close = "ok") =>
        LET bars == indicator_input.monthly.bars
            h1 == indicator_input.monthly.hist[2].v
            h2 == indicator_input.monthly.hist[3].v
        IN  IF bars >= 35
            THEN /\ "error" \notin DOMAIN indicator
                 /\ indicator.sell_preparation_needed
                      = ((h1 > 0 /\ h2 < 0) \/ (h2 < h1 /\ h1 < 0))
                 /\ (h1 = 0 \/ h2 = 0) => ~ indicator.sell_preparation_needed
            ELSE /\ indicator = [error |-> "insufficient_data"]
                 /\ "sell_preparation_needed" \notin DOMAIN indicator

\* a deepening negative run on exactly 35 bars, h0 not a number
C22_Witness ==
    /\ MacdDone
    /\ indicator_input.monthly.close = "ok"
    /\ indicator_input.monthly.bars = 35
    /\ indicator_input.monthly.hist = <<NaN, Num(-1), Num(-2)>>
    /\ indicator.sell_preparation_needed


---------------------------------------------------------------------------
(* Properties of the caution signals of a sector (SpecSector) *)

SectorAnalyzed == sector_signals # NotCalled /\ sector_data # <<>>

\* the members of the sector with at least n sessions
WithHistory(n) == {i \in DOMAIN sector_data : sector_data[i].sessions >= n}

CountWhere(S, P(_)) == Cardinality({i \in S : P(i)})

\* the sum of the g lowest 6-month returns among the members of S, counted
\* level by level
RECURSIVE LowestSum(_, _, _)
LowestSum(levels, S, g) ==
    IF levels = {} THEN 0
    ELSE LET v == CHOOSE x \in levels : TRUE
             below == CountWhere(S, LAMBDA i : sector_data[i].return_6m < v)
             equal == CountWhere(S, LAMBDA i : sector_data[i].return_6m = v)
         IN  v * Min(Max(g - below, 0), equal) + LowestSum(levels \ {v}, S, g)

\* C23: of the n members with at least 126 sessions, the laggard group is
\* the max(1, n div 4) with the lowest 6-month return, and the laggard
\* warning is true exactly when the mean return of that group is at least
\* 50 percent; members with fewer sessions are left out, and with no member
\* of 126 sessions there is no group.
C23_LaggardGroup ==
    SectorAnalyzed =>
        LET S == WithHistory(126)
            n == Cardinality(S)
            g == Max(1, n \div 4)
            levels == {sector_data[i].return_6m : i \in S}
            laggard == sector_signals.laggard_surge
        IN  IF n = 0 THEN laggard = [error |-> "insufficient_data"]
            ELSE /\ laggard.laggard_count = g
                 /\ laggard.warning_signal = (LowestSum(levels, S, g) >= 50 * g)

\* a group of two whose mean is above 50 while its lowest return is below
C23_Witness ==
    /\ SectorAnalyzed
    /\ Cardinality(WithHistory(126)) = 8
    /\ Len(sector_data) = 8
    /\ sector_signals.laggard_surge.laggard_count = 2
    /\ sector_signals.laggard_surge.warning_signal
    /\ \E i \in DOMAIN sector_data : sector_data[i].return_6m < 50


\* C24: the high-valuation warning is true exactly when, of the members
\* with at least 126 sessions, half or more close at 90 percent or more of
\* their 52-week high, the 52-week high of a member being the largest High
\* of its trailing 252 sessions, or of all its sessions when it has fewer.
C24_HighValuationOverAvailable ==
    SectorAnalyzed =>
        LET S == WithHistory(126)
            high == CountWhere(S, LAMBDA i :
                        100 * sector_data[i].last_close >= 90 * sector_data[i].max_high)
        IN  sector_signals.high_pbr.warning_signal
                = (S # {} /\ 2 * high >= Cardinality(S))

\* the 3-month and 6-month returns of the members of S, summed
RECURSIVE SumReturn3m(_)
SumReturn3m(S) ==
    IF S = {} THEN 0
    ELSE LET i == CHOOSE x \in S : TRUE
         IN  sector_data[i].return_3m + SumReturn3m(S \ {i})

RECURSIVE SumReturn6m(_)
SumReturn6m(S) ==
    IF S = {} THEN 0
    ELSE LET i == CHOOSE x \in S : TRUE
         IN  sector_data[i].return_6m + SumReturn6m(S \ {i})

\* C25: the market-heat warning is true exactly when the mean 3-month
\* return is at least 30 percent or the mean 6-month return is at least 50
\* percent, the 3-month mean taken over the members with the 63 sessions a
\* 3-month return needs and the 6-month mean over those with 126; a mean
\* over no member is 0.
C25_HeatAveragesPerHorizon ==
    SectorAnalyzed =>
        LET S3 == WithHistory(63)
            S6 == WithHistory(126)
        IN  sector_signals.market_heat.warning_signal
                = \/ S3 # {} /\ SumReturn3m(S3) >= 30 * Cardinality(S3)
                  \/ S6 # {} /\ SumReturn6m(S6) >= 50 * Cardinality(S6)


=============================================================================
